---- MODULE Spec2Model ----
(***************************************************************************)
(* Model of BansheeEngine's CoreThread (CmCoreThread.cpp): the command     *)
(* queue shared by producer threads and the single core (worker) thread,   *)
(* the blocking-completion protocol, the shutdown protocol, the thread     *)
(* identity recorded in mCoreThreadId, and the double-buffered frame       *)
(* allocators.                                                             *)
(*                                                                         *)
(* Threads: "main" constructs the CoreThread (and later shuts it down),    *)
(* "p1" is a second producer, "core" is the worker spawned by              *)
(* initCoreThread that runs runCoreThread.                                 *)
(***************************************************************************)
EXTENDS Integers, Sequences, FiniteSets, TLC

\* ---------------------------------------------------------------- bounds
\* Total number of queueCommand / queueReturnCommand calls in a behaviour.
MaxCmds == 3
\* Number of update() calls (frames) in a behaviour of SpecArena.
MaxFrames == 3
\* Number of distinct allocations a frame may make from the active arena.
MaxAllocs == 2

\* ------------------------------------------------------ program constants
\* UINT32 commandId = -1 : the local id of a submission that asks for no
\* notification.  (mMaxCommandNotifyId is a UINT32 that wraps after 2^32
\* blocking submissions; behaviours here make at most MaxCmds submissions, so
\* the counter is modelled without the wrap.)
NoNotifyId == -1

Main == "main"
Worker == "core"
Producers == {"main", "p1"}
Threads == Producers \cup {Worker}
NoThread == "none"

VARIABLES
    mCoreThreadId,         \* thread id recorded as "the core thread"
    mCoreThreadShutdown,   \* shutdown flag, guarded by mCommandQueueMutex
    mCommandQueue,         \* pending commands of the shared synced queue
    mMaxCommandNotifyId,   \* next notify id
    mCommandsCompleted,    \* completed notify ids not yet consumed
    mSyncedCoreAccessor,   \* "null" | "valid" | "deleted"
    mActiveFrameAlloc,     \* index of the active frame allocator
    mFrameAllocs,          \* contents of the two frame allocators
    mCommandQueueMutex,    \* holder of mCommandQueueMutex, or NoThread
    mCommandNotifyMutex,   \* holder of mCommandNotifyMutex, or NoThread
    pc,                    \* position of every thread
    cur,                   \* per thread: the submission in progress
    commands,              \* core thread: the flushed batch being played
    notifying,             \* core thread: command whose completion is notified
    workers,               \* TaskScheduler: addWorker minus removeWorker calls
    executed,              \* history: invocations, in order, with the invoker
    nextCmd,               \* history: number of submissions made so far
    returned,              \* history: blocking cross-thread calls that returned
    pendingAtShutdown,     \* history: queue contents when the flag was set
    enqueued,              \* history: submissions in the order they were queued
    frame,                 \* history: number of update() calls so far
    allocated,             \* history: every allocation made from an arena
    mAccessor,             \* per thread: the thread-local accessor container
    mAccessors,            \* the registry of accessor containers
    mAccessorMutex,        \* holder of mAccessorMutex, or NoThread
    accessorCopies,        \* per thread: submitAccessors' copy of the registry
    freed,                 \* what ~CoreThread has deleted so far
    accessorsCreated,      \* number of AccessorContainers created so far
    handedOut,             \* history: per thread, the accessors getAccessor returned
    syncedDeref            \* history: what dereferences of mSyncedCoreAccessor found

threadVars == <<mCoreThreadId, mCoreThreadShutdown, mCommandQueue,
                mMaxCommandNotifyId, mCommandsCompleted, mSyncedCoreAccessor,
                mCommandQueueMutex, mCommandNotifyMutex, pc, cur, commands,
                notifying, workers, executed, nextCmd, returned,
                pendingAtShutdown, enqueued>>
arenaVars == <<mActiveFrameAlloc, mFrameAllocs, frame, allocated>>
accessorVars == <<mAccessor, mAccessors, mAccessorMutex, accessorCopies, freed,
                  accessorsCreated, handedOut, syncedDeref>>
\* Everything of threadVars but the threads' positions.
dispatchVars == <<mCoreThreadId, mCoreThreadShutdown, mCommandQueue,
                  mMaxCommandNotifyId, mCommandsCompleted, mSyncedCoreAccessor,
                  mCommandQueueMutex, mCommandNotifyMutex, cur, commands,
                  notifying, workers, executed, nextCmd, returned,
                  pendingAtShutdown, enqueued>>
vars == <<threadVars, arenaVars, accessorVars>>

NoCmd == [cmd |-> 0, owner |-> NoThread, notify |-> FALSE, notifyId |-> NoNotifyId]
NoCur == [cmd |-> 0, block |-> FALSE, commandId |-> NoNotifyId]

\* ------------------------------------------------- external collaborators
\* CommandQueue<CommandQueueSync>: an ordered (FIFO) sequence of commands.
isEmpty(q) == q = <<>>

queue(q, c) == Append(q, c)

\* flush() detaches the whole pending batch and leaves the queue empty.
flushBatch(q) == q

flushRest(q) == <<>>

\* playbackWithNotify(batch, notify) runs the batch front to back: the next
\* command to run and what is left of the batch after it.
playbackNext(batch) == Head(batch)

playbackRest(batch) == Tail(batch)

\* FrameAlloc: a linear arena; clear() releases everything in it.
alloc(arena, tok) == arena \cup {tok}

clear(arena) == {}

\* ------------------------------------------------------------- construction
\* CoreThread::CoreThread followed by initCoreThread: the worker is spawned
\* but has not run yet; mCoreThreadId holds the constructing thread's id.
Init ==
    /\ mCoreThreadId = Main
    /\ mCoreThreadShutdown = FALSE
    /\ mCommandQueue = <<>>
    /\ mMaxCommandNotifyId = 0
    /\ mCommandsCompleted = <<>>
    /\ mSyncedCoreAccessor = "null"
    /\ mActiveFrameAlloc = 0
    /\ mFrameAllocs = [i \in {0, 1} |-> {}]
    /\ mCommandQueueMutex = NoThread
    /\ mCommandNotifyMutex = NoThread
    /\ pc = [t \in Threads |-> IF t = Worker THEN "start" ELSE "idle"]
    /\ cur = [t \in Threads |-> NoCur]
    /\ commands = <<>>
    /\ notifying = NoCmd
    /\ workers = 0
    /\ executed = <<>>
    /\ nextCmd = 0
    /\ returned = {}
    /\ pendingAtShutdown = {}
    /\ enqueued = <<>>
    /\ frame = 0
    /\ allocated = {}
    /\ mAccessor = [t \in Threads |-> 0]
    /\ mAccessors = <<>>
    /\ mAccessorMutex = NoThread
    /\ accessorCopies = [t \in Threads |-> <<>>]
    /\ freed = {}
    /\ accessorsCreated = 0
    /\ handedOut = [t \in Threads |-> {}]
    /\ syncedDeref = {}

\* getCoreThreadId().  mCoreThreadId is written by the worker (line 70) and by
\* shutdownCoreThread (line 115) and read here without synchronisation; a
\* racing read yields the old or the new id, which is what the interleaving
\* of the atomic steps below produces.
getCoreThreadId == mCoreThreadId

\* --------------------------------------------- queueCommand / queueReturnCommand
\* Both functions have the same control flow (lines 155-184 and 186-211); a
\* submission is identified by its call number.  Producers call from "idle";
\* the core thread calls from inside the body of the command it is playing
\* back (position "play") and returns there.
CallSite(t) == IF t = Worker THEN "play" ELSE "idle"

\* A completed invocation of command c by thread t.
Invoke(c, t, block) ==
    Append(executed, [cmd |-> c.cmd, owner |-> c.owner, by |-> t,
                      block |-> block, notifyId |-> c.notifyId])

\* Variant of QueueCommand_Call without the early return after the immediate
\* execution: the caller goes on into the cross-thread path as well.
QueueCommand_Call_NoReturn(t, blockUntilComplete) ==
    /\ pc[t] = CallSite(t)
    /\ nextCmd < MaxCmds
    /\ nextCmd' = nextCmd + 1
    /\ IF t = getCoreThreadId
       THEN executed' = Invoke([cmd |-> nextCmd + 1, owner |-> t,
                                notify |-> FALSE, notifyId |-> NoNotifyId],
                               t, blockUntilComplete)
       ELSE UNCHANGED executed
    /\ cur' = [cur EXCEPT ![t] = [cmd |-> nextCmd + 1,
                                  block |-> blockUntilComplete,
                                  commandId |-> NoNotifyId]]
    /\ pc' = [pc EXCEPT ![t] = "qLock"]
    /\ UNCHANGED <<mCoreThreadId, mCoreThreadShutdown, mCommandQueue,
                   mMaxCommandNotifyId, mCommandsCompleted, mSyncedCoreAccessor,
                   mCommandQueueMutex, mCommandNotifyMutex, commands, notifying,
                   workers, returned, pendingAtShutdown,
                   enqueued, arenaVars, accessorVars>>

\* The call: if the caller's id equals getCoreThreadId() the command is
\* executed immediately and the call returns; otherwise the caller goes on
\* to take mCommandQueueMutex.
QueueCommand_Call(t, blockUntilComplete) ==
    /\ pc[t] = CallSite(t)
    /\ nextCmd < MaxCmds
    /\ nextCmd' = nextCmd + 1
    /\ IF t = getCoreThreadId
       THEN /\ executed' = Invoke([cmd |-> nextCmd + 1, owner |-> t,
                                   notify |-> FALSE, notifyId |-> NoNotifyId],
                                  t, blockUntilComplete)
            /\ UNCHANGED <<pc, cur>>
       ELSE /\ cur' = [cur EXCEPT ![t] = [cmd |-> nextCmd + 1,
                                          block |-> blockUntilComplete,
                                          commandId |-> NoNotifyId]]
            /\ pc' = [pc EXCEPT ![t] = "qLock"]
            /\ UNCHANGED executed
    /\ UNCHANGED <<mCoreThreadId, mCoreThreadShutdown, mCommandQueue,
                   mMaxCommandNotifyId, mCommandsCompleted, mSyncedCoreAccessor,
                   mCommandQueueMutex, mCommandNotifyMutex, commands, notifying,
                   workers, returned, pendingAtShutdown,
                   enqueued, arenaVars, accessorVars>>

\* CM_LOCK_MUTEX(mCommandQueueMutex)
QueueCommand_Lock(t) ==
    /\ pc[t] = "qLock"
    /\ mCommandQueueMutex = NoThread
    /\ mCommandQueueMutex' = t
    /\ pc' = [pc EXCEPT ![t] = "qEnqueue"]
    /\ UNCHANGED <<mCoreThreadId, mCoreThreadShutdown, mCommandQueue,
                   mMaxCommandNotifyId, mCommandsCompleted, mSyncedCoreAccessor,
                   mCommandNotifyMutex, cur, commands, notifying, workers,
                   executed, nextCmd, returned, pendingAtShutdown,
                   enqueued, arenaVars, accessorVars>>

\* Variant of QueueCommand_Enqueue that puts a blocking command at the head
\* of the queue instead of its tail.
QueueCommand_Enqueue_Front(t) ==
    /\ pc[t] = "qEnqueue"
    /\ mCommandQueueMutex = t
    /\ IF cur[t].block
       THEN /\ mMaxCommandNotifyId' = mMaxCommandNotifyId + 1
            /\ cur' = [cur EXCEPT ![t].commandId = mMaxCommandNotifyId]
            /\ mCommandQueue' =
                   <<[cmd |-> cur[t].cmd, owner |-> t, notify |-> TRUE,
                      notifyId |-> mMaxCommandNotifyId]>> \o mCommandQueue
       ELSE /\ mCommandQueue' = queue(mCommandQueue,
                   [cmd |-> cur[t].cmd, owner |-> t, notify |-> FALSE,
                    notifyId |-> NoNotifyId])
            /\ UNCHANGED <<mMaxCommandNotifyId, cur>>
    /\ enqueued' = Append(enqueued, cur[t].cmd)
    /\ mCommandQueueMutex' = NoThread
    /\ pc' = [pc EXCEPT ![t] = "qNotify"]
    /\ UNCHANGED <<mCoreThreadId, mCoreThreadShutdown, mCommandsCompleted,
                   mSyncedCoreAccessor, mCommandNotifyMutex, commands, notifying,
                   workers, executed, nextCmd, returned, pendingAtShutdown,
                   arenaVars, accessorVars>>

\* Variant of QueueCommand_Enqueue whose locked scope does not end after the
\* enqueue: the submitter goes on with mCommandQueueMutex held.
QueueCommand_Enqueue_KeepsLock(t) ==
    /\ pc[t] = "qEnqueue"
    /\ mCommandQueueMutex = t
    /\ IF cur[t].block
       THEN /\ mMaxCommandNotifyId' = mMaxCommandNotifyId + 1
            /\ cur' = [cur EXCEPT ![t].commandId = mMaxCommandNotifyId]
            /\ mCommandQueue' = queue(mCommandQueue,
                   [cmd |-> cur[t].cmd, owner |-> t, notify |-> TRUE,
                    notifyId |-> mMaxCommandNotifyId])
       ELSE /\ mCommandQueue' = queue(mCommandQueue,
                   [cmd |-> cur[t].cmd, owner |-> t, notify |-> FALSE,
                    notifyId |-> NoNotifyId])
            /\ UNCHANGED <<mMaxCommandNotifyId, cur>>
    /\ enqueued' = Append(enqueued, cur[t].cmd)
    /\ mCommandQueueMutex' = IF cur[t].block THEN t ELSE NoThread
    /\ pc' = [pc EXCEPT ![t] = "qNotify"]
    /\ UNCHANGED <<mCoreThreadId, mCoreThreadShutdown, mCommandsCompleted,
                   mSyncedCoreAccessor, mCommandNotifyMutex, commands, notifying,
                   workers, executed, nextCmd, returned, pendingAtShutdown,
                   arenaVars, accessorVars>>

\* Variant of QueueCommand_Enqueue that takes a notify id for every
\* submission, blocking or not.
QueueCommand_Enqueue_AlwaysId(t) ==
    /\ pc[t] = "qEnqueue"
    /\ mCommandQueueMutex = t
    /\ mMaxCommandNotifyId' = mMaxCommandNotifyId + 1
    /\ cur' = [cur EXCEPT ![t].commandId = mMaxCommandNotifyId]
    /\ mCommandQueue' = queue(mCommandQueue,
           [cmd |-> cur[t].cmd, owner |-> t, notify |-> TRUE,
            notifyId |-> mMaxCommandNotifyId])
    /\ enqueued' = Append(enqueued, cur[t].cmd)
    /\ mCommandQueueMutex' = NoThread
    /\ pc' = [pc EXCEPT ![t] = "qNotify"]
    /\ UNCHANGED <<mCoreThreadId, mCoreThreadShutdown, mCommandsCompleted,
                   mSyncedCoreAccessor, mCommandNotifyMutex, commands, notifying,
                   workers, executed, nextCmd, returned, pendingAtShutdown,
                   arenaVars, accessorVars>>

\* Under the mutex: a blocking submission takes commandId = mMaxCommandNotifyId++
\* and queues the command with that notify id; a non-blocking one queues it
\* without notification.  The mutex is released at the end of the scope.
QueueCommand_Enqueue(t) ==
    /\ pc[t] = "qEnqueue"
    /\ mCommandQueueMutex = t
    /\ IF cur[t].block
       THEN /\ mMaxCommandNotifyId' = mMaxCommandNotifyId + 1
            /\ cur' = [cur EXCEPT ![t].commandId = mMaxCommandNotifyId]
            /\ mCommandQueue' = queue(mCommandQueue,
                   [cmd |-> cur[t].cmd, owner |-> t, notify |-> TRUE,
                    notifyId |-> mMaxCommandNotifyId])
       ELSE /\ mCommandQueue' = queue(mCommandQueue,
                   [cmd |-> cur[t].cmd, owner |-> t, notify |-> FALSE,
                    notifyId |-> NoNotifyId])
            /\ UNCHANGED <<mMaxCommandNotifyId, cur>>
    /\ enqueued' = Append(enqueued, cur[t].cmd)
    /\ mCommandQueueMutex' = NoThread
    /\ pc' = [pc EXCEPT ![t] = "qNotify"]
    /\ UNCHANGED <<mCoreThreadId, mCoreThreadShutdown, mCommandsCompleted,
                   mSyncedCoreAccessor, mCommandNotifyMutex, commands, notifying,
                   workers, executed, nextCmd, returned, pendingAtShutdown,
                   arenaVars, accessorVars>>

\* CM_THREAD_NOTIFY_ALL(mCommandReadyCondition): a core thread waiting on the
\* condition is woken (it still has to re-acquire the mutex).
NotifyAllReady(p) == [p EXCEPT ![Worker] = IF @ = "waitReady" THEN "wokenReady" ELSE @]

\* Variant of QueueCommand_Notify that returns without calling
\* blockUntilCommandCompleted.
QueueCommand_Notify_NoWait(t) ==
    /\ pc[t] = "qNotify"
    /\ pc' = [NotifyAllReady(pc) EXCEPT ![t] = CallSite(t)]
    /\ cur' = [cur EXCEPT ![t] = NoCur]
    /\ returned' = IF cur[t].block THEN returned \cup {cur[t].cmd} ELSE returned
    /\ UNCHANGED <<mCoreThreadId, mCoreThreadShutdown, mCommandQueue,
                   mMaxCommandNotifyId, mCommandsCompleted, mSyncedCoreAccessor,
                   mCommandQueueMutex, mCommandNotifyMutex, commands, notifying,
                   workers, executed, nextCmd, pendingAtShutdown,
                   enqueued, arenaVars, accessorVars>>

\* Notify, then either enter blockUntilCommandCompleted or return.
QueueCommand_Notify(t) ==
    /\ pc[t] = "qNotify"
    /\ IF cur[t].block
       THEN /\ pc' = [NotifyAllReady(pc) EXCEPT ![t] = "blockLock"]
            /\ UNCHANGED cur
       ELSE /\ pc' = [NotifyAllReady(pc) EXCEPT ![t] = CallSite(t)]
            /\ cur' = [cur EXCEPT ![t] = NoCur]
    /\ UNCHANGED <<mCoreThreadId, mCoreThreadShutdown, mCommandQueue,
                   mMaxCommandNotifyId, mCommandsCompleted, mSyncedCoreAccessor,
                   mCommandQueueMutex, mCommandNotifyMutex, commands, notifying,
                   workers, executed, nextCmd, returned, pendingAtShutdown,
                   enqueued, arenaVars, accessorVars>>

\* ------------------------------------------------ blockUntilCommandCompleted
\* CM_LOCK_MUTEX_NAMED(mCommandNotifyMutex, lock), also the re-acquisition
\* after a wake-up from CM_THREAD_WAIT.
Block_Lock(t) ==
    /\ pc[t] = "blockLock"
    /\ mCommandNotifyMutex = NoThread
    /\ mCommandNotifyMutex' = t
    /\ pc' = [pc EXCEPT ![t] = "blockCheck"]
    /\ UNCHANGED <<mCoreThreadId, mCoreThreadShutdown, mCommandQueue,
                   mMaxCommandNotifyId, mCommandsCompleted, mSyncedCoreAccessor,
                   mCommandQueueMutex, cur, commands, notifying, workers,
                   executed, nextCmd, returned, pendingAtShutdown,
                   enqueued, arenaVars, accessorVars>>

\* The linear search of lines 234-239: index of the first element equal to
\* commandId, or 0 when there is none (iter == end).
RECURSIVE FindFrom(_, _, _)
FindFrom(list, commandId, i) ==
    IF i > Len(list) THEN 0
    ELSE IF list[i] = commandId THEN i
    ELSE FindFrom(list, commandId, i + 1)

\* Variant of Find whose comparison always succeeds: the search stops at the
\* first element whatever its id.
FindAny(list, commandId) == IF list = <<>> THEN 0 ELSE 1

Find(list, commandId) == FindFrom(list, commandId, 1)

\* Variant of Erase that leaves the list as it is: the waiter returns without
\* consuming its id.
Erase_KeepsId(list, i) == list

\* mCommandsCompleted.erase(iter)
Erase(list, i) == SubSeq(list, 1, i - 1) \o SubSeq(list, i + 1, Len(list))

\* One pass of the while(true) loop, holding mCommandNotifyMutex: if the id is
\* in the completed list erase it and return, otherwise CM_THREAD_WAIT (which
\* releases the mutex).
Block_Check(t) ==
    /\ pc[t] = "blockCheck"
    /\ mCommandNotifyMutex = t
    /\ mCommandNotifyMutex' = NoThread
    /\ LET i == Find(mCommandsCompleted, cur[t].commandId) IN
       IF i # 0
       THEN /\ mCommandsCompleted' = Erase(mCommandsCompleted, i)
            /\ pc' = [pc EXCEPT ![t] = CallSite(t)]
            /\ returned' = returned \cup {cur[t].cmd}
            /\ cur' = [cur EXCEPT ![t] = NoCur]
       ELSE /\ pc' = [pc EXCEPT ![t] = "waitComplete"]
            /\ UNCHANGED <<mCommandsCompleted, returned, cur>>
    /\ UNCHANGED <<mCoreThreadId, mCoreThreadShutdown, mCommandQueue,
                   mMaxCommandNotifyId, mSyncedCoreAccessor, mCommandQueueMutex,
                   commands, notifying, workers, executed, nextCmd,
                   pendingAtShutdown, enqueued, arenaVars, accessorVars>>

\* A condition-variable wait may end without a notification.
SpuriousWake(t) ==
    /\ \/ /\ pc[t] = "waitComplete"
          /\ pc' = [pc EXCEPT ![t] = "blockLock"]
       \/ /\ t = Worker
          /\ pc[t] = "waitReady"
          /\ pc' = [pc EXCEPT ![t] = "wokenReady"]
    /\ UNCHANGED <<mCoreThreadId, mCoreThreadShutdown, mCommandQueue,
                   mMaxCommandNotifyId, mCommandsCompleted, mSyncedCoreAccessor,
                   mCommandQueueMutex, mCommandNotifyMutex, cur, commands,
                   notifying, workers, executed, nextCmd, returned,
                   pendingAtShutdown, enqueued, arenaVars, accessorVars>>

\* -------------------------------------------------------------- runCoreThread
\* TaskScheduler::removeWorker(); mCoreThreadId = CM_THREAD_CURRENT_ID
Core_Start ==
    /\ pc[Worker] = "start"
    /\ workers' = workers - 1
    /\ mCoreThreadId' = Worker
    /\ pc' = [pc EXCEPT ![Worker] = "newAccessor"]
    /\ UNCHANGED <<mCoreThreadShutdown, mCommandQueue, mMaxCommandNotifyId,
                   mCommandsCompleted, mSyncedCoreAccessor, mCommandQueueMutex,
                   mCommandNotifyMutex, cur, commands, notifying, executed,
                   nextCmd, returned, pendingAtShutdown,
                   enqueued, arenaVars, accessorVars>>

\* mSyncedCoreAccessor = cm_new<CoreThreadAccessor<CommandQueueSync>>(...)
Core_NewAccessor ==
    /\ pc[Worker] = "newAccessor"
    /\ mSyncedCoreAccessor' = "valid"
    /\ pc' = [pc EXCEPT ![Worker] = "lock"]
    /\ UNCHANGED <<mCoreThreadId, mCoreThreadShutdown, mCommandQueue,
                   mMaxCommandNotifyId, mCommandsCompleted, mCommandQueueMutex,
                   mCommandNotifyMutex, cur, commands, notifying, workers,
                   executed, nextCmd, returned, pendingAtShutdown,
                   enqueued, arenaVars, accessorVars>>

\* CM_LOCK_MUTEX_NAMED(mCommandQueueMutex, lock) at the top of the outer loop.
Core_Lock ==
    /\ pc[Worker] = "lock"
    /\ mCommandQueueMutex = NoThread
    /\ mCommandQueueMutex' = Worker
    /\ pc' = [pc EXCEPT ![Worker] = "check"]
    /\ UNCHANGED <<mCoreThreadId, mCoreThreadShutdown, mCommandQueue,
                   mMaxCommandNotifyId, mCommandsCompleted, mSyncedCoreAccessor,
                   mCommandNotifyMutex, cur, commands, notifying, workers,
                   executed, nextCmd, returned, pendingAtShutdown,
                   enqueued, arenaVars, accessorVars>>

\* Variant of Core_Check that tests the shutdown flag before the queue: the
\* core thread returns as soon as the flag is set.
Core_Check_FlagFirst ==
    /\ pc[Worker] = "check"
    /\ mCommandQueueMutex = Worker
    /\ mCommandQueueMutex' = NoThread
    /\ IF mCoreThreadShutdown
       THEN /\ workers' = workers + 1
            /\ mSyncedCoreAccessor' = "deleted"
            /\ pc' = [pc EXCEPT ![Worker] = "done"]
            /\ UNCHANGED <<mCommandQueue, commands>>
       ELSE IF isEmpty(mCommandQueue)
       THEN /\ workers' = workers + 1
            /\ pc' = [pc EXCEPT ![Worker] = "waitReady"]
            /\ UNCHANGED <<mSyncedCoreAccessor, mCommandQueue, commands>>
       ELSE /\ commands' = flushBatch(mCommandQueue)
            /\ mCommandQueue' = flushRest(mCommandQueue)
            /\ pc' = [pc EXCEPT ![Worker] = "play"]
            /\ UNCHANGED <<workers, mSyncedCoreAccessor>>
    /\ UNCHANGED <<mCoreThreadId, mCoreThreadShutdown, mMaxCommandNotifyId,
                   mCommandsCompleted, mCommandNotifyMutex, cur, notifying,
                   executed, nextCmd, returned, pendingAtShutdown,
                   enqueued, arenaVars, accessorVars>>

\* Variant of Core_Check that copies the pending commands instead of
\* detaching them: the queue keeps what the batch holds.
Core_Check_KeepsQueue ==
    /\ pc[Worker] = "check"
    /\ mCommandQueueMutex = Worker
    /\ mCommandQueueMutex' = NoThread
    /\ IF isEmpty(mCommandQueue)
       THEN /\ workers' = workers + 1
            /\ IF mCoreThreadShutdown
               THEN /\ mSyncedCoreAccessor' = "deleted"
                    /\ pc' = [pc EXCEPT ![Worker] = "done"]
               ELSE /\ pc' = [pc EXCEPT ![Worker] = "waitReady"]
                    /\ UNCHANGED mSyncedCoreAccessor
            /\ UNCHANGED <<mCommandQueue, commands>>
       ELSE /\ commands' = flushBatch(mCommandQueue)
            /\ mCommandQueue' = mCommandQueue
            /\ pc' = [pc EXCEPT ![Worker] = "play"]
            /\ UNCHANGED <<workers, mSyncedCoreAccessor>>
    /\ UNCHANGED <<mCoreThreadId, mCoreThreadShutdown, mMaxCommandNotifyId,
                   mCommandsCompleted, mCommandNotifyMutex, cur, notifying,
                   executed, nextCmd, returned, pendingAtShutdown, enqueued,
                   arenaVars, accessorVars>>

\* Variant of Core_Check whose locked scope extends over the playback: the
\* mutex is still held when the batch has been flushed.
Core_Check_HoldsLock ==
    /\ pc[Worker] = "check"
    /\ mCommandQueueMutex = Worker
    /\ IF isEmpty(mCommandQueue)
       THEN /\ workers' = workers + 1
            /\ mCommandQueueMutex' = NoThread
            /\ IF mCoreThreadShutdown
               THEN /\ mSyncedCoreAccessor' = "deleted"
                    /\ pc' = [pc EXCEPT ![Worker] = "done"]
               ELSE /\ pc' = [pc EXCEPT ![Worker] = "waitReady"]
                    /\ UNCHANGED mSyncedCoreAccessor
            /\ UNCHANGED <<mCommandQueue, commands>>
       ELSE /\ commands' = flushBatch(mCommandQueue)
            /\ mCommandQueue' = flushRest(mCommandQueue)
            /\ pc' = [pc EXCEPT ![Worker] = "play"]
            /\ UNCHANGED <<workers, mSyncedCoreAccessor, mCommandQueueMutex>>
    /\ UNCHANGED <<mCoreThreadId, mCoreThreadShutdown, mMaxCommandNotifyId,
                   mCommandsCompleted, mCommandNotifyMutex, cur, notifying,
                   executed, nextCmd, returned, pendingAtShutdown, enqueued,
                   arenaVars, accessorVars>>

\* One evaluation of while(mCommandQueue->isEmpty()) with the mutex held:
\*   empty and shut down: delete the accessor, addWorker, return;
\*   empty otherwise:     addWorker, CM_THREAD_WAIT (releases the mutex);
\*   not empty:           commands = flush(), leave the locked scope.
Core_Check ==
    /\ pc[Worker] = "check"
    /\ mCommandQueueMutex = Worker
    /\ mCommandQueueMutex' = NoThread
    /\ IF isEmpty(mCommandQueue)
       THEN /\ workers' = workers + 1
            /\ IF mCoreThreadShutdown
               THEN /\ mSyncedCoreAccessor' = "deleted"
                    /\ pc' = [pc EXCEPT ![Worker] = "done"]
               ELSE /\ pc' = [pc EXCEPT ![Worker] = "waitReady"]
                    /\ UNCHANGED mSyncedCoreAccessor
            /\ UNCHANGED <<mCommandQueue, commands>>
       ELSE /\ commands' = flushBatch(mCommandQueue)
            /\ mCommandQueue' = flushRest(mCommandQueue)
            /\ pc' = [pc EXCEPT ![Worker] = "play"]
            /\ UNCHANGED <<workers, mSyncedCoreAccessor>>
    /\ UNCHANGED <<mCoreThreadId, mCoreThreadShutdown, mMaxCommandNotifyId,
                   mCommandsCompleted, mCommandNotifyMutex, cur, notifying,
                   executed, nextCmd, returned, pendingAtShutdown,
                   enqueued, arenaVars, accessorVars>>

\* Variant of Core_Woken without the removeWorker call after the wait.
Core_Woken_NoRemove ==
    /\ pc[Worker] = "wokenReady"
    /\ mCommandQueueMutex = NoThread
    /\ mCommandQueueMutex' = Worker
    /\ pc' = [pc EXCEPT ![Worker] = "check"]
    /\ UNCHANGED <<mCoreThreadId, mCoreThreadShutdown, mCommandQueue,
                   mMaxCommandNotifyId, mCommandsCompleted, mSyncedCoreAccessor,
                   mCommandNotifyMutex, cur, commands, notifying, executed,
                   nextCmd, returned, pendingAtShutdown, workers, enqueued,
                   arenaVars, accessorVars>>

\* Return from CM_THREAD_WAIT (the mutex is re-acquired), then removeWorker
\* and back to the loop condition.
Core_Woken ==
    /\ pc[Worker] = "wokenReady"
    /\ mCommandQueueMutex = NoThread
    /\ mCommandQueueMutex' = Worker
    /\ workers' = workers - 1
    /\ pc' = [pc EXCEPT ![Worker] = "check"]
    /\ UNCHANGED <<mCoreThreadId, mCoreThreadShutdown, mCommandQueue,
                   mMaxCommandNotifyId, mCommandsCompleted, mSyncedCoreAccessor,
                   mCommandNotifyMutex, cur, commands, notifying, executed,
                   nextCmd, returned, pendingAtShutdown,
                   enqueued, arenaVars, accessorVars>>

\* Where the core thread goes after a command of the batch is finished.
AfterCommand(rest) == IF rest = <<>> THEN "lock" ELSE "play"

\* playbackWithNotify: the body of the next command of the batch, in order,
\* completes; a command that carries a notify id is followed by
\* commandCompletedNotify.
Core_Invoke ==
    /\ pc[Worker] = "play"
    /\ commands # <<>>
    /\ LET c == playbackNext(commands) IN
       /\ executed' = Invoke(c, Worker, c.notify)
       /\ commands' = playbackRest(commands)
       /\ IF c.notify
          THEN /\ notifying' = c
               /\ pc' = [pc EXCEPT ![Worker] = "notifyLock"]
          ELSE /\ pc' = [pc EXCEPT ![Worker] = AfterCommand(playbackRest(commands))]
               /\ UNCHANGED notifying
    /\ UNCHANGED <<mCoreThreadId, mCoreThreadShutdown, mCommandQueue,
                   mMaxCommandNotifyId, mCommandsCompleted, mSyncedCoreAccessor,
                   mCommandQueueMutex, mCommandNotifyMutex, cur, workers,
                   nextCmd, returned, pendingAtShutdown,
                   enqueued, arenaVars, accessorVars>>

\* ------------------------------------------------------ commandCompletedNotify
\* CM_LOCK_MUTEX(mCommandNotifyMutex)
Notify_Lock ==
    /\ pc[Worker] = "notifyLock"
    /\ mCommandNotifyMutex = NoThread
    /\ mCommandNotifyMutex' = Worker
    /\ pc' = [pc EXCEPT ![Worker] = "notifyPush"]
    /\ UNCHANGED <<mCoreThreadId, mCoreThreadShutdown, mCommandQueue,
                   mMaxCommandNotifyId, mCommandsCompleted, mSyncedCoreAccessor,
                   mCommandQueueMutex, cur, commands, notifying, workers,
                   executed, nextCmd, returned, pendingAtShutdown,
                   enqueued, arenaVars, accessorVars>>

\* mCommandsCompleted.push_back(commandId); the mutex is released.
Notify_Push ==
    /\ pc[Worker] = "notifyPush"
    /\ mCommandNotifyMutex = Worker
    /\ mCommandsCompleted' = Append(mCommandsCompleted, notifying.notifyId)
    /\ mCommandNotifyMutex' = NoThread
    /\ pc' = [pc EXCEPT ![Worker] = "notifyAll"]
    /\ UNCHANGED <<mCoreThreadId, mCoreThreadShutdown, mCommandQueue,
                   mMaxCommandNotifyId, mSyncedCoreAccessor, mCommandQueueMutex,
                   cur, commands, notifying, workers, executed, nextCmd,
                   returned, pendingAtShutdown,
                   enqueued, arenaVars, accessorVars>>

\* CM_THREAD_NOTIFY_ALL(mCommandCompleteCondition): every producer waiting in
\* blockUntilCommandCompleted is woken; playback goes on.
Notify_All ==
    /\ pc[Worker] = "notifyAll"
    /\ pc' = [t \in Threads |->
                IF t = Worker THEN AfterCommand(commands)
                ELSE IF pc[t] = "waitComplete" THEN "blockLock"
                ELSE pc[t]]
    /\ notifying' = NoCmd
    /\ UNCHANGED <<mCoreThreadId, mCoreThreadShutdown, mCommandQueue,
                   mMaxCommandNotifyId, mCommandsCompleted, mSyncedCoreAccessor,
                   mCommandQueueMutex, mCommandNotifyMutex, cur, commands,
                   workers, executed, nextCmd, returned, pendingAtShutdown,
                   enqueued, arenaVars, accessorVars>>

\* ---------------------------------------------------------- shutdownCoreThread
\* Called once, by the thread that constructed the CoreThread (~CoreThread).
\* CM_LOCK_MUTEX(mCommandQueueMutex)
Shutdown_Lock ==
    /\ pc[Main] = "idle"
    /\ ~mCoreThreadShutdown
    /\ mCommandQueueMutex = NoThread
    /\ mCommandQueueMutex' = Main
    /\ pc' = [pc EXCEPT ![Main] = "shutdownSet"]
    /\ UNCHANGED <<mCoreThreadId, mCoreThreadShutdown, mCommandQueue,
                   mMaxCommandNotifyId, mCommandsCompleted, mSyncedCoreAccessor,
                   mCommandNotifyMutex, cur, commands, notifying, workers,
                   executed, nextCmd, returned, pendingAtShutdown,
                   enqueued, arenaVars, accessorVars>>

CmdIds(q) == {q[i].cmd : i \in DOMAIN q}

\* mCoreThreadShutdown = true; the mutex is released.
Shutdown_Set ==
    /\ pc[Main] = "shutdownSet"
    /\ mCommandQueueMutex = Main
    /\ mCoreThreadShutdown' = TRUE
    /\ pendingAtShutdown' = CmdIds(mCommandQueue)
    /\ mCommandQueueMutex' = NoThread
    /\ pc' = [pc EXCEPT ![Main] = "shutdownNotify"]
    /\ UNCHANGED <<mCoreThreadId, mCommandQueue, mMaxCommandNotifyId,
                   mCommandsCompleted, mSyncedCoreAccessor, mCommandNotifyMutex,
                   cur, commands, notifying, workers, executed, nextCmd,
                   returned, enqueued, arenaVars, accessorVars>>

\* CM_THREAD_NOTIFY_ALL(mCommandReadyCondition)
Shutdown_Notify ==
    /\ pc[Main] = "shutdownNotify"
    /\ pc' = [NotifyAllReady(pc) EXCEPT ![Main] = "shutdownSetId"]
    /\ UNCHANGED <<mCoreThreadId, mCoreThreadShutdown, mCommandQueue,
                   mMaxCommandNotifyId, mCommandsCompleted, mSyncedCoreAccessor,
                   mCommandQueueMutex, mCommandNotifyMutex, cur, commands,
                   notifying, workers, executed, nextCmd, returned,
                   pendingAtShutdown, enqueued, arenaVars, accessorVars>>

\* mCoreThreadId = CM_THREAD_CURRENT_ID
Shutdown_SetId ==
    /\ pc[Main] = "shutdownSetId"
    /\ mCoreThreadId' = Main
    /\ pc' = [pc EXCEPT ![Main] = "idle"]
    /\ UNCHANGED <<mCoreThreadShutdown, mCommandQueue, mMaxCommandNotifyId,
                   mCommandsCompleted, mSyncedCoreAccessor, mCommandQueueMutex,
                   mCommandNotifyMutex, cur, commands, notifying, workers,
                   executed, nextCmd, returned, pendingAtShutdown,
                   enqueued, arenaVars, accessorVars>>

\* ------------------------------------------------------ thread-identity guards
\* TRUE when the guard raises InternalErrorException for calling thread t.
throwIfNotCoreThread(t) == t # getCoreThreadId

throwIfCoreThread(t) == t = getCoreThreadId

\* ----------------------------------------------------------- specification
Next ==
    \/ \E t \in Threads, b \in BOOLEAN : QueueCommand_Call(t, b)
    \/ \E t \in Threads : QueueCommand_Lock(t)
    \/ \E t \in Threads : QueueCommand_Enqueue(t)
    \/ \E t \in Threads : QueueCommand_Notify(t)
    \/ \E t \in Threads : Block_Lock(t)
    \/ \E t \in Threads : Block_Check(t)
    \/ \E t \in Threads : SpuriousWake(t)
    \/ Core_Start
    \/ Core_NewAccessor
    \/ Core_Lock
    \/ Core_Check
    \/ Core_Woken
    \/ Core_Invoke
    \/ Notify_Lock
    \/ Notify_Push
    \/ Notify_All
    \/ Shutdown_Lock
    \/ Shutdown_Set
    \/ Shutdown_Notify
    \/ Shutdown_SetId

Spec == Init /\ [][Next]_vars

\* The same program under fair scheduling: a thread that can take its next
\* step eventually takes it, and a thread that requests a mutex which is free
\* again and again eventually gets it.  Nothing obliges a thread to make a new
\* submission, to shut the core thread down, or to wake up spuriously.
Fairness ==
    /\ \A t \in Threads :
          /\ SF_vars(QueueCommand_Lock(t))
          /\ WF_vars(QueueCommand_Enqueue(t))
          /\ WF_vars(QueueCommand_Notify(t))
          /\ SF_vars(Block_Lock(t))
          /\ WF_vars(Block_Check(t))
    /\ WF_vars(Core_Start)
    /\ WF_vars(Core_NewAccessor)
    /\ SF_vars(Core_Lock)
    /\ WF_vars(Core_Check)
    /\ SF_vars(Core_Woken)
    /\ WF_vars(Core_Invoke)
    /\ SF_vars(Notify_Lock)
    /\ WF_vars(Notify_Push)
    /\ WF_vars(Notify_All)
    /\ WF_vars(Shutdown_Set)
    /\ WF_vars(Shutdown_Notify)
    /\ WF_vars(Shutdown_SetId)

FairSpec == Spec /\ Fairness

\* ------------------------------------------------------------------ accessors
\* Accessor containers are identified by the order of their creation; 0 is
\* nullptr.  CoreThreadAccessor is an external collaborator: its
\* submitToCoreThread merges the accessor's local channel into the shared
\* queue; the local channels hold no commands here (commands are submitted by
\* queueCommand), so a submit adds nothing to the shared queue.
submitToCoreThread(q) == q

\* Variant of GetAccessor_Call without the thread-local cache: every call
\* creates and registers a container.
GetAccessor_Call_NoCache(t) ==
    /\ pc[t] = "idle"
    /\ freed = {}
    /\ accessorsCreated' = accessorsCreated + 1
    /\ mAccessor' = [mAccessor EXCEPT ![t] = accessorsCreated + 1]
    /\ pc' = [pc EXCEPT ![t] = "accLock"]
    /\ UNCHANGED <<mAccessors, mAccessorMutex, accessorCopies, freed, handedOut,
                   syncedDeref, dispatchVars, arenaVars>>

\* getAccessor(): the thread-local mAccessor is tested; if it is nullptr a
\* container is created and stored in it, otherwise the cached accessor is
\* returned.
GetAccessor_Call(t) ==
    /\ pc[t] = "idle"
    /\ freed = {}
    /\ IF mAccessor[t] = 0
       THEN /\ accessorsCreated' = accessorsCreated + 1
            /\ mAccessor' = [mAccessor EXCEPT ![t] = accessorsCreated + 1]
            /\ pc' = [pc EXCEPT ![t] = "accLock"]
            /\ UNCHANGED handedOut
       ELSE /\ handedOut' = [handedOut EXCEPT ![t] = @ \cup {mAccessor[t]}]
            /\ UNCHANGED <<accessorsCreated, mAccessor, pc>>
    /\ UNCHANGED <<mAccessors, mAccessorMutex, accessorCopies, freed,
                   syncedDeref, dispatchVars, arenaVars>>

\* CM_LOCK_MUTEX(mAccessorMutex)
GetAccessor_Lock(t) ==
    /\ pc[t] = "accLock"
    /\ mAccessorMutex = NoThread
    /\ mAccessorMutex' = t
    /\ pc' = [pc EXCEPT ![t] = "accPush"]
    /\ UNCHANGED <<mAccessor, mAccessors, accessorCopies, freed,
                   accessorsCreated, handedOut, syncedDeref, dispatchVars,
                   arenaVars>>

\* mAccessors.push_back(mAccessor); the mutex is released and the accessor
\* returned.
GetAccessor_Push(t) ==
    /\ pc[t] = "accPush"
    /\ mAccessorMutex = t
    /\ mAccessors' = Append(mAccessors, mAccessor[t])
    /\ mAccessorMutex' = NoThread
    /\ handedOut' = [handedOut EXCEPT ![t] = @ \cup {mAccessor[t]}]
    /\ pc' = [pc EXCEPT ![t] = "idle"]
    /\ UNCHANGED <<mAccessor, accessorCopies, freed, accessorsCreated,
                   syncedDeref, dispatchVars, arenaVars>>

\* A dereference of mSyncedCoreAccessor by thread t: what it finds is
\* recorded.  If the pointer is nullptr or points to the deleted accessor the
\* behaviour of the program is undefined from there on: the thread is taken
\* out of the model (position "undefined"), which stands for every outcome.
DerefSynced(t, ret) ==
    /\ syncedDeref' = syncedDeref \cup {mSyncedCoreAccessor}
    /\ pc' = [pc EXCEPT ![t] = IF mSyncedCoreAccessor = "valid" THEN ret
                                ELSE "undefined"]

\* getSyncedAccessor(): return *mSyncedCoreAccessor
getSyncedAccessor(t) ==
    /\ pc[t] = "idle"
    /\ freed = {}
    /\ DerefSynced(t, "idle")
    /\ UNCHANGED <<mAccessor, mAccessors, mAccessorMutex, accessorCopies, freed,
                   accessorsCreated, handedOut, dispatchVars, arenaVars>>

\* submitAccessors: CM_LOCK_MUTEX(mAccessorMutex)
SubmitAccessors_Lock(t) ==
    /\ pc[t] = "idle"
    /\ freed = {}
    /\ mAccessorMutex = NoThread
    /\ mAccessorMutex' = t
    /\ pc' = [pc EXCEPT ![t] = "subCopy"]
    /\ UNCHANGED <<mAccessor, mAccessors, accessorCopies, freed,
                   accessorsCreated, handedOut, syncedDeref, dispatchVars,
                   arenaVars>>

\* accessorCopies = mAccessors; the mutex is released.
SubmitAccessors_Copy(t) ==
    /\ pc[t] = "subCopy"
    /\ mAccessorMutex = t
    /\ accessorCopies' = [accessorCopies EXCEPT ![t] = mAccessors]
    /\ mAccessorMutex' = NoThread
    /\ pc' = [pc EXCEPT ![t] = "subLoop"]
    /\ UNCHANGED <<mAccessor, mAccessors, freed, accessorsCreated, handedOut,
                   syncedDeref, dispatchVars, arenaVars>>

\* One iteration of the loop over accessorCopies:
\* accessor->accessor->submitToCoreThread(blockUntilComplete).  A container
\* that ~CoreThread has deleted meanwhile is a dangling pointer.
SubmitAccessors_Each(t) ==
    /\ pc[t] = "subLoop"
    /\ accessorCopies[t] # <<>>
    /\ accessorCopies' = [accessorCopies EXCEPT ![t] = Tail(@)]
    /\ mCommandQueue' = submitToCoreThread(mCommandQueue)
    /\ pc' = [pc EXCEPT ![t] = IF "accessors" \in freed THEN "undefined"
                                ELSE "subLoop"]
    /\ UNCHANGED <<mCoreThreadId, mCoreThreadShutdown, mMaxCommandNotifyId,
                   mCommandsCompleted, mSyncedCoreAccessor, mCommandQueueMutex,
                   mCommandNotifyMutex, cur, commands, notifying, workers,
                   executed, nextCmd, returned, pendingAtShutdown, enqueued,
                   mAccessor, mAccessors, mAccessorMutex, freed,
                   accessorsCreated, handedOut, syncedDeref, arenaVars>>

\* After the loop: mSyncedCoreAccessor->submitToCoreThread(blockUntilComplete)
SubmitAccessors_Synced(t) ==
    /\ pc[t] = "subLoop"
    /\ accessorCopies[t] = <<>>
    /\ DerefSynced(t, "idle")
    /\ mCommandQueue' = submitToCoreThread(mCommandQueue)
    /\ UNCHANGED <<mCoreThreadId, mCoreThreadShutdown, mMaxCommandNotifyId,
                   mCommandsCompleted, mSyncedCoreAccessor, mCommandQueueMutex,
                   mCommandNotifyMutex, cur, commands, notifying, workers,
                   executed, nextCmd, returned, pendingAtShutdown, enqueued,
                   mAccessor, mAccessors, mAccessorMutex, accessorCopies, freed,
                   accessorsCreated, handedOut, arenaVars>>

\* ---------------------------------------------------------------- ~CoreThread
\* The destructor is run by the constructing thread: shutdownCoreThread()
\* (the Shutdown_ steps above), then the deletions below.  Nothing in it waits
\* for the worker to leave runCoreThread.
\* CM_LOCK_MUTEX(mAccessorMutex), once shutdownCoreThread has returned.
Destroy_Lock ==
    /\ pc[Main] = "idle"
    /\ mCoreThreadShutdown
    /\ freed = {}
    /\ mAccessorMutex = NoThread
    /\ mAccessorMutex' = Main
    /\ pc' = [pc EXCEPT ![Main] = "dtorAccessors"]
    /\ UNCHANGED <<mAccessor, mAccessors, accessorCopies, freed,
                   accessorsCreated, handedOut, syncedDeref, dispatchVars,
                   arenaVars>>

\* cm_delete of every registered container, mAccessors.clear(); the mutex is
\* released.  The thread-local mAccessor pointers are left as they are.
Destroy_Accessors ==
    /\ pc[Main] = "dtorAccessors"
    /\ mAccessorMutex = Main
    /\ mAccessors' = <<>>
    /\ freed' = freed \cup {"accessors"}
    /\ mAccessorMutex' = NoThread
    /\ pc' = [pc EXCEPT ![Main] = "dtorQueue"]
    /\ UNCHANGED <<mAccessor, accessorCopies, accessorsCreated, handedOut,
                   syncedDeref, dispatchVars, arenaVars>>

\* cm_delete(mCommandQueue); mCommandQueue = nullptr -- without the mutex.
Destroy_Queue ==
    /\ pc[Main] = "dtorQueue"
    /\ freed' = freed \cup {"queue"}
    /\ pc' = [pc EXCEPT ![Main] = "dtorAllocs"]
    /\ UNCHANGED <<mAccessor, mAccessors, mAccessorMutex, accessorCopies,
                   accessorsCreated, handedOut, syncedDeref, dispatchVars,
                   arenaVars>>

\* cm_delete(mFrameAllocs[0]); cm_delete(mFrameAllocs[1])
Destroy_FrameAllocs ==
    /\ pc[Main] = "dtorAllocs"
    /\ freed' = freed \cup {"allocs"}
    /\ pc' = [pc EXCEPT ![Main] = "destroyed"]
    /\ UNCHANGED <<mAccessor, mAccessors, mAccessorMutex, accessorCopies,
                   accessorsCreated, handedOut, syncedDeref, dispatchVars,
                   arenaVars>>

\* The worker's loop test while the queue exists.
Core_CheckLive ==
    /\ "queue" \notin freed
    /\ Core_Check

\* The worker's loop test after ~CoreThread has deleted the queue:
\* mCommandQueue->isEmpty() through a dangling or null pointer.  The behaviour
\* is undefined from there on; the worker is taken out of the model.
Core_UseAfterFree ==
    /\ pc[Worker] = "check"
    /\ "queue" \in freed
    /\ pc' = [pc EXCEPT ![Worker] = "undefined"]
    /\ UNCHANGED <<dispatchVars, arenaVars, accessorVars>>

\* Life cycle of a CoreThread through which no command is submitted:
\* construction, the worker's start and idle loop, the accessor functions
\* called by the producers, and destruction.
NextLifecycle ==
    \/ \E t \in Producers : GetAccessor_Call(t)
    \/ \E t \in Producers : GetAccessor_Lock(t)
    \/ \E t \in Producers : GetAccessor_Push(t)
    \/ \E t \in Producers : getSyncedAccessor(t)
    \/ \E t \in Producers : SubmitAccessors_Lock(t)
    \/ \E t \in Producers : SubmitAccessors_Copy(t)
    \/ \E t \in Producers : SubmitAccessors_Each(t)
    \/ \E t \in Producers : SubmitAccessors_Synced(t)
    \/ Core_Start
    \/ Core_NewAccessor
    \/ Core_Lock
    \/ Core_CheckLive
    \/ Core_UseAfterFree
    \/ Core_Woken
    \/ SpuriousWake(Worker)
    \/ Shutdown_Lock
    \/ Shutdown_Set
    \/ Shutdown_Notify
    \/ Shutdown_SetId
    \/ Destroy_Lock
    \/ Destroy_Accessors
    \/ Destroy_Queue
    \/ Destroy_FrameAllocs

SpecLifecycle == Init /\ [][NextLifecycle]_vars

\* ------------------------------------------------------- frame allocators
\* getFrameAlloc(): the active allocator (by index).
getFrameAlloc == mActiveFrameAlloc

\* Variant of update that clears the allocator that was active before the
\* flip.
update_ClearsInactive ==
    /\ frame < MaxFrames
    /\ frame' = frame + 1
    /\ mActiveFrameAlloc' = (mActiveFrameAlloc + 1) % 2
    /\ mFrameAllocs' = [mFrameAllocs EXCEPT ![mActiveFrameAlloc] = clear(@)]
    /\ UNCHANGED <<allocated, threadVars, accessorVars>>

\* Variant of update that does not flip: one allocator is used and cleared
\* every frame.
update_NoFlip ==
    /\ frame < MaxFrames
    /\ frame' = frame + 1
    /\ mActiveFrameAlloc' = mActiveFrameAlloc
    /\ mFrameAllocs' = [mFrameAllocs EXCEPT ![mActiveFrameAlloc] = clear(@)]
    /\ UNCHANGED <<allocated, threadVars, accessorVars>>

\* update(): flip the active index, then clear the allocator it now selects.
update ==
    /\ frame < MaxFrames
    /\ frame' = frame + 1
    /\ mActiveFrameAlloc' = (mActiveFrameAlloc + 1) % 2
    /\ mFrameAllocs' = [mFrameAllocs EXCEPT ![(mActiveFrameAlloc + 1) % 2] = clear(@)]
    /\ UNCHANGED <<allocated, threadVars, accessorVars>>

\* A frame-scoped allocation from getFrameAlloc(), tagged with the frame and
\* the arena it was made in.
Allocate(k) ==
    LET tok == [frame |-> frame, arena |-> getFrameAlloc, k |-> k] IN
    /\ tok \notin allocated
    /\ mFrameAllocs' = [mFrameAllocs EXCEPT ![getFrameAlloc] = alloc(@, tok)]
    /\ allocated' = allocated \cup {tok}
    /\ UNCHANGED <<mActiveFrameAlloc, frame, threadVars, accessorVars>>

NextArena ==
    \/ update
    \/ \E k \in 1..MaxAllocs : Allocate(k)

SpecArena == Init /\ [][NextArena]_vars

\* ================================================================ properties
Range(f) == {f[i] : i \in DOMAIN f}

ExecutedCmds == {executed[i].cmd : i \in DOMAIN executed}

\* Commands that are enqueued and not yet invoked: in the shared queue or in
\* the flushed batch.
Pending == Range(mCommandQueue) \cup Range(commands)

\* Thread t is inside a blocking cross-thread submission, its notify id taken.
InBlockingCall(t) ==
    /\ cur[t].block
    /\ pc[t] \in {"qNotify", "blockLock", "blockCheck", "waitComplete"}

\* commandCompletedNotify has inserted notify id k.
Pushed(k) ==
    /\ \E i \in DOMAIN executed : executed[i].by = Worker /\ executed[i].notifyId = k
    /\ ~(pc[Worker] \in {"notifyLock", "notifyPush"} /\ notifying.notifyId = k)

\* C1: per-producer FIFO.  Submission numbers grow with every call, so for one
\* producer they give its submission order.  Two played-back commands of the
\* same producer were invoked in submission order, and no command of a
\* producer is invoked while an earlier enqueued command of that producer is
\* still pending (also across different flushed batches).
C1_PerProducerFifo ==
    /\ \A i, j \in DOMAIN executed :
          ( /\ i < j
            /\ executed[i].by = Worker /\ executed[j].by = Worker
            /\ executed[i].owner \in Producers
            /\ executed[i].owner = executed[j].owner )
          => executed[i].cmd < executed[j].cmd
    /\ \A j \in DOMAIN executed : \A c \in Pending :
          ( /\ executed[j].by = Worker
            /\ executed[j].owner \in Producers
            /\ executed[j].owner = c.owner )
          => executed[j].cmd < c.cmd

\* Two commands of one producer played back in different batches: the earlier
\* one was blocking, so the later one was enqueued after it had run.
C1_Witness ==
    \E i, j \in DOMAIN executed :
        /\ i < j
        /\ executed[i].by = Worker /\ executed[j].by = Worker
        /\ executed[i].owner \in Producers
        /\ executed[i].owner = executed[j].owner
        /\ executed[i].block

\* C2: when a blocking cross-thread submission has returned, the core thread
\* has invoked that command exactly once; and a notify id is in the completed
\* list (or on its way into it) only after its command's invocation completed.
C2_BlockingReturnsAfterInvocation ==
    /\ \A c \in returned :
          /\ Cardinality({i \in DOMAIN executed : executed[i].cmd = c}) = 1
          /\ \A i \in DOMAIN executed : executed[i].cmd = c => executed[i].by = Worker
    /\ \A k \in Range(mCommandsCompleted) :
          \E i \in DOMAIN executed : executed[i].by = Worker /\ executed[i].notifyId = k
    /\ notifying # NoCmd => notifying.cmd \in ExecutedCmds

\* A blocking cross-thread submission has returned.
C2_Witness ==
    /\ returned # {}
    /\ \E i \in DOMAIN executed : executed[i].cmd \in returned /\ executed[i].block

\* C3: no enqueued command is lost.  Once runCoreThread has returned nothing
\* invokes a queued command any more, so eventual execution of every enqueued
\* command requires that no command is pending after the core thread's exit.
C3_EveryEnqueuedCommandRuns ==
    pc[Worker] = "done" => Pending = {}

\* C4: concurrent blocking submissions hold pairwise distinct notify ids; as
\* long as a blocked caller has not returned, its id is in mCommandsCompleted
\* exactly when its own completion was inserted (nobody else consumed it, and
\* nothing else put it there); a caller that returned did so after its own
\* id had been inserted, and removed it.
C4_OwnNotifyIdOnly ==
    /\ \A t, u \in Threads :
          (t # u /\ InBlockingCall(t) /\ InBlockingCall(u))
          => cur[t].commandId # cur[u].commandId
    /\ \A t \in Threads :
          InBlockingCall(t)
          => (Pushed(cur[t].commandId) <=> cur[t].commandId \in Range(mCommandsCompleted))
    /\ \A i \in DOMAIN executed :
          executed[i].cmd \in returned
          => /\ Pushed(executed[i].notifyId)
             /\ executed[i].notifyId \notin Range(mCommandsCompleted)

\* Two callers blocked at once: one has been woken and re-checks the list,
\* which holds the other caller's id and not its own.
C4_Witness ==
    \E t, u \in Producers :
        /\ t # u
        /\ InBlockingCall(t) /\ InBlockingCall(u)
        /\ pc[t] = "blockCheck"
        /\ cur[t].commandId \notin Range(mCommandsCompleted)
        /\ cur[u].commandId \in Range(mCommandsCompleted)

\* C5: runCoreThread returns only from a state in which the queue is empty
\* and the shutdown flag is set, and by then every command that was pending
\* when the flag was set has been invoked.
C5_ShutdownDrains ==
    [][ (pc[Worker] # "done" /\ pc'[Worker] = "done")
        => /\ isEmpty(mCommandQueue)
           /\ mCoreThreadShutdown
           /\ commands = <<>>
           /\ pendingAtShutdown \subseteq ExecutedCmds ]_vars

\* The core thread has exited after a shutdown that found 3 commands queued.
C5_Witness ==
    /\ pc[Worker] = "done"
    /\ Cardinality(pendingAtShutdown) >= 3
    /\ pendingAtShutdown \subseteq ExecutedCmds

\* C6: every command body is invoked by the worker thread that runs
\* runCoreThread, in every reachable state.
C6_OnlyWorkerInvokes ==
    \A i \in DOMAIN executed : executed[i].by = Worker

\* C7: throwIfNotCoreThread raises for every caller that is not the worker
\* thread, and throwIfCoreThread raises for the worker thread (once it runs).
C7_GuardsDeterministic ==
    /\ \A t \in Producers : throwIfNotCoreThread(t)
    /\ pc[Worker] \notin {"start", "done"} => throwIfCoreThread(Worker)

\* C10: a submission by the thread whose id equals getCoreThreadId() (a step
\* that makes a submission and starts no cross-thread submission) invokes the
\* command exactly once, leaves the caller where it was (no blocking) and
\* leaves the queue, mMaxCommandNotifyId and mCommandsCompleted unchanged.
C10_SameThreadBypass ==
    [][ (nextCmd' # nextCmd /\ \A t \in Threads : t # getCoreThreadId => cur'[t] = cur[t])
        => /\ Len(executed') = Len(executed) + 1
           /\ executed'[Len(executed')].cmd = nextCmd'
           /\ executed'[Len(executed')].by = getCoreThreadId
           /\ nextCmd' \notin ExecutedCmds
           /\ pc' = pc
           /\ cur' = cur
           /\ UNCHANGED <<mCommandQueue, mMaxCommandNotifyId, mCommandsCompleted>> ]_vars

\* The core thread, playing back a batch, made a blocking submission from a
\* command body; it was executed at once and playback goes on.
C10_Witness ==
    /\ pc[Worker] = "play"
    /\ \E i \in DOMAIN executed :
          /\ executed[i].by = Worker
          /\ executed[i].owner = Worker
          /\ executed[i].notifyId = NoNotifyId
          /\ executed[i].block

\* ------------------------------------------------- frame allocator properties
\* C8 as stated: update() clears the arena that was active before the call
\* and leaves the arena that is active after the call as it was.
C8_ClearsPreviouslyActive ==
    [][ frame' # frame
        => /\ mActiveFrameAlloc' = 1 - mActiveFrameAlloc
           /\ mFrameAllocs'[mActiveFrameAlloc] = {}
           /\ mFrameAllocs'[mActiveFrameAlloc'] = mFrameAllocs[mActiveFrameAlloc'] ]_vars

\* C8 amended: update() flips the active index between 0 and 1 and clears the
\* arena that is active after the flip; the arena that was active before the
\* call is not cleared by that call.
C8_ClearsNewlyActive ==
    [][ frame' # frame
        => /\ mActiveFrameAlloc \in {0, 1}
           /\ mActiveFrameAlloc' = 1 - mActiveFrameAlloc
           /\ mFrameAllocs'[mActiveFrameAlloc'] = {}
           /\ mFrameAllocs'[mActiveFrameAlloc] = mFrameAllocs[mActiveFrameAlloc] ]_vars

\* After an update() that had something to clear (allocations made two frames
\* ago) and something to keep (allocations of the previous frame).
C8_Witness ==
    /\ frame >= 2
    /\ mFrameAllocs[mActiveFrameAlloc] = {}
    /\ mFrameAllocs[1 - mActiveFrameAlloc] # {}
    /\ \E tok \in allocated : tok.frame = frame - 2

\* C9: the active index is 0 or 1 and alternates with every update(); an
\* allocation is intact during its own frame and the following one and is
\* gone from the second following update() on; the active arena holds only
\* allocations of the current frame, so a new allocation never shares an
\* arena with a live allocation of the previous frame.
C9_DoubleBufferedLifetime ==
    /\ mActiveFrameAlloc \in {0, 1}
    /\ getFrameAlloc = frame % 2
    /\ \A tok \in allocated :
          /\ frame - tok.frame <= 1 => tok \in mFrameAllocs[tok.arena]
          /\ frame - tok.frame >= 2 => tok \notin mFrameAllocs[0] \cup mFrameAllocs[1]
          /\ frame - tok.frame = 1 => tok.arena # getFrameAlloc
    /\ \A tok \in mFrameAllocs[getFrameAlloc] : tok.frame = frame

\* Three generations at once: an allocation cleared by its second update(),
\* one that survived one update(), and a fresh one in the active arena.
C9_Witness ==
    /\ \E tok \in allocated : tok.frame = frame - 2
    /\ \E tok \in mFrameAllocs[1 - getFrameAlloc] : tok.frame = frame - 1
    /\ \E tok \in mFrameAllocs[getFrameAlloc] : tok.frame = frame

\* The submission numbers of a sequence of commands, in order.
CmdSeq(q) == [i \in DOMAIN q |-> q[i].cmd]

\* The invocations of queued commands (immediate executions left out), in the
\* order they completed.
PlayedBack ==
    LET wasQueued(e) == e.cmd \in Range(enqueued) IN
    CmdSeq(SelectSeq(executed, wasQueued))

\* A step in which the core thread takes a new batch.
IsFlush == commands = <<>> /\ commands' # <<>>

\* C11: global execution order and exactly-one-batch.  The order in which
\* submissions were queued under mCommandQueueMutex (enqueued) is at all times
\* the commands already played back, then the rest of the flushed batch, then
\* the pending queue: so playback follows the global enqueue order, every
\* queued command is in exactly one place and is invoked at most once, and
\* what is queued during playback stays in the queue.  Queued commands are
\* invoked by the core thread only.  A flush happens with the mutex held by
\* the core thread and the queue non-empty, takes the whole queue and leaves
\* it empty; the queue never shrinks otherwise.
C11_GlobalOrderOneBatch ==
    /\ [](PlayedBack \o CmdSeq(commands) \o CmdSeq(mCommandQueue) = enqueued)
    /\ [](\A i \in DOMAIN executed :
              executed[i].cmd \in Range(enqueued) => executed[i].by = Worker)
    /\ [][ /\ IsFlush => /\ mCommandQueueMutex = Worker
                         /\ ~isEmpty(mCommandQueue)
                         /\ commands' = mCommandQueue
                         /\ mCommandQueue' = <<>>
           /\ Len(mCommandQueue') < Len(mCommandQueue) => IsFlush ]_vars

\* A command of a flushed batch has been played back and more of the batch
\* is left, another command was queued meanwhile, and two submissions were
\* queued in the opposite order of their calls.
C11_Witness ==
    /\ Len(PlayedBack) >= 1
    /\ commands # <<>>
    /\ mCommandQueue # <<>>
    /\ \E i, j \in DOMAIN enqueued : i < j /\ enqueued[i] > enqueued[j]

\* The positions of the core thread between the flush and the end of the
\* batch: inside playbackWithNotify, commandCompletedNotify included.
PlaybackPositions == {"play", "notifyLock", "notifyPush", "notifyAll"}

C13_LockIndependence ==
    /\ [](\A t \in Threads :
              /\ ~(mCommandQueueMutex = t /\ mCommandNotifyMutex = t)
              /\ pc[t] \in {"blockLock", "blockCheck", "waitComplete"}
                 => mCommandQueueMutex # t
              /\ pc[t] \in {"check", "qEnqueue", "shutdownSet"}
                 => mCommandQueueMutex = t
              /\ pc[t] \in {"blockCheck", "notifyPush"}
                 => mCommandNotifyMutex = t)
    /\ [][ /\ (mCommandQueue' # mCommandQueue
                \/ mCoreThreadShutdown' # mCoreThreadShutdown)
              => /\ mCommandQueueMutex \in Threads
                 /\ pc'[mCommandQueueMutex] # pc[mCommandQueueMutex]
           /\ mCommandsCompleted' # mCommandsCompleted
              => /\ mCommandNotifyMutex \in Threads
                 /\ pc'[mCommandNotifyMutex] # pc[mCommandNotifyMutex] ]_vars

\* Both mutexes are in use at once, by different threads: a producer searches
\* mCommandsCompleted while another thread is inside the queue's locked scope.
C13_Witness ==
    \E t \in Producers, u \in Threads :
        /\ t # u
        /\ pc[t] = "blockCheck"
        /\ mCommandNotifyMutex = t
        /\ mCommandQueueMutex = u
        /\ mCommandsCompleted # <<>>

\* Thread t is inside a cross-thread blocking submission that has not
\* returned yet.
BlockingOutstanding(t) ==
    /\ cur[t].block
    /\ pc[t] \in {"qLock", "qEnqueue", "qNotify", "blockLock", "blockCheck",
                  "waitComplete"}

\* C14: under fair scheduling every blocking submission of a producer
\* returns, unless the core thread exits.
C14_BlockingReturns ==
    \A t \in Producers :
        BlockingOutstanding(t) ~> (~BlockingOutstanding(t) \/ pc[Worker] = "done")

\* C15: completion-set invariant.  mCommandsCompleted holds no id twice, and
\* every id in it is the notify id of a command that has run and whose
\* submitter is still inside its blocking call: an id goes in once, after its
\* command, and is taken out by its owner before the owner returns.  Hence
\* the list is empty whenever no blocking submission is outstanding.  An
\* insertion appends, under commandCompletedNotify, the id of a command the
\* core thread has run; a removal takes out the id of the thread that
\* returns.
C15_CompletionSet ==
    /\ [](\A i, j \in DOMAIN mCommandsCompleted :
              mCommandsCompleted[i] = mCommandsCompleted[j] => i = j)
    /\ [](\A i \in DOMAIN mCommandsCompleted :
              /\ \E t \in Threads : /\ BlockingOutstanding(t)
                                    /\ cur[t].commandId = mCommandsCompleted[i]
              /\ \E k \in DOMAIN executed :
                    /\ executed[k].by = Worker
                    /\ executed[k].notifyId = mCommandsCompleted[i])
    /\ []((\A t \in Threads : ~BlockingOutstanding(t)) => mCommandsCompleted = <<>>)
    /\ [][ /\ Len(mCommandsCompleted') > Len(mCommandsCompleted)
              => /\ pc[Worker] = "notifyPush"
                 /\ \E k \in DOMAIN executed :
                       /\ executed[k].by = Worker
                       /\ executed[k].notifyId \notin Range(mCommandsCompleted)
                       /\ mCommandsCompleted'
                            = Append(mCommandsCompleted, executed[k].notifyId)
           /\ Len(mCommandsCompleted') < Len(mCommandsCompleted)
              => \E t \in Threads :
                    /\ pc[t] = "blockCheck"
                    /\ pc'[t] = CallSite(t)
                    /\ Range(mCommandsCompleted')
                         = Range(mCommandsCompleted) \ {cur[t].commandId} ]_vars

\* Two blocked producers' commands have completed and neither has consumed
\* its id yet.
C15_Witness ==
    /\ Len(mCommandsCompleted) = 2
    /\ \A t \in Producers : BlockingOutstanding(t)

\* C16: capacity lending.  workers counts addWorker minus removeWorker calls
\* of the core thread.  It is 0 or -1 and changes by one at a time, so the
\* calls alternate and the first is removeWorker.  The slot is returned
\* (workers = 0) exactly when the core thread has not started, waits on
\* mCommandReadyCondition (or has been woken and not yet returned from the
\* wait), or has left runCoreThread; at every other position, flushing and
\* playing back included, the slot is held (workers = -1).
C16_CapacityLending ==
    /\ [](workers \in {-1, 0})
    /\ [](workers = 0 <=> pc[Worker] \in {"start", "waitReady", "wokenReady", "done"})
    /\ [][workers' \in {workers - 1, workers, workers + 1}]_vars

\* The core thread has played commands back, then idled and lent its slot,
\* and has been woken for a new command it has not reclaimed the slot for yet.
C16_Witness ==
    /\ pc[Worker] = "wokenReady"
    /\ workers = 0
    /\ PlayedBack # <<>>
    /\ mCommandQueue # <<>>

\* A step in which a cross-thread submission is queued.
IsEnqueue == Len(enqueued') = Len(enqueued) + 1

\* C17: notify-id allocation.  mMaxCommandNotifyId never decreases and changes
\* only when a blocking submission is queued: that step adds one and gives
\* the old value to the command and to the submitter.  Queueing a
\* non-blocking submission leaves the counter alone and queues the command
\* without notification; no id in mCommandsCompleted comes from a
\* non-blocking submission; and a non-blocking submitter returns from the
\* notify straight to its caller, never entering blockUntilCommandCompleted.
C17_NotifyIdAllocation ==
    /\ [][ /\ mMaxCommandNotifyId' >= mMaxCommandNotifyId
           /\ mMaxCommandNotifyId' # mMaxCommandNotifyId
              => IsEnqueue /\ cur[mCommandQueueMutex].block
           /\ IsEnqueue
              => LET t == mCommandQueueMutex
                     c == mCommandQueue'[Len(mCommandQueue')]
                 IN  /\ c.cmd = cur[t].cmd
                     /\ IF cur[t].block
                        THEN /\ mMaxCommandNotifyId' = mMaxCommandNotifyId + 1
                             /\ c.notify
                             /\ c.notifyId = mMaxCommandNotifyId
                             /\ cur'[t].commandId = mMaxCommandNotifyId
                        ELSE /\ mMaxCommandNotifyId' = mMaxCommandNotifyId
                             /\ ~c.notify
                             /\ c.notifyId = NoNotifyId
                             /\ cur'[t].commandId = NoNotifyId
           /\ \A t \in Threads :
                 pc[t] = "qNotify" /\ ~cur[t].block /\ pc'[t] # pc[t]
                 => pc'[t] = CallSite(t) ]_vars
    /\ [](\A t \in Threads :
              pc[t] \in {"blockLock", "blockCheck", "waitComplete"} => cur[t].block)
    /\ [](\A i \in DOMAIN mCommandsCompleted :
              \E k \in DOMAIN executed : /\ executed[k].block
                                         /\ executed[k].notifyId = mCommandsCompleted[i])
    /\ [](\A k \in DOMAIN executed : ~executed[k].block /\ executed[k].by = Worker
                                      => executed[k].notifyId = NoNotifyId)

\* Two blocking submissions have taken the ids 0 and 1, and a non-blocking
\* submission has been queued and played back.
C17_Witness ==
    /\ mMaxCommandNotifyId = 2
    /\ \E k \in DOMAIN executed :
          /\ executed[k].by = Worker
          /\ executed[k].cmd \in Range(enqueued)
          /\ ~executed[k].block

\* C18: one accessor per thread, as long as ~CoreThread has not deleted the
\* accessors.  Every call of getAccessor by a thread returned the same
\* accessor, no accessor was returned to two threads, mAccessors holds no
\* container twice, holds only containers of threads that called getAccessor,
\* and holds the container of every thread whose first call has returned;
\* a container missing from it belongs to a thread that is still inside its
\* first call, on its way to push_back.
C18_OneAccessorPerThread ==
    "accessors" \notin freed =>
    /\ \A t \in Threads : Cardinality(handedOut[t]) <= 1
    /\ \A t, u \in Threads : t # u => handedOut[t] \cap handedOut[u] = {}
    /\ \A i, j \in DOMAIN mAccessors : mAccessors[i] = mAccessors[j] => i = j
    /\ Range(mAccessors) \subseteq {mAccessor[t] : t \in Threads} \ {0}
    /\ \A t \in Threads :
          /\ handedOut[t] \subseteq Range(mAccessors)
          /\ mAccessor[t] # 0 /\ mAccessor[t] \notin Range(mAccessors)
             => pc[t] \in {"accLock", "accPush"}
    /\ Len(mAccessors) = Cardinality({t \in Threads : mAccessor[t] # 0
                                        /\ pc[t] \notin {"accLock", "accPush"}})

\* Both producers made their first call at the same time (one was at the
\* lock while the other held it), both calls have returned and each thread
\* has its own registered accessor.
C18_Witness ==
    /\ Len(mAccessors) = 2
    /\ \A t \in Producers : handedOut[t] = {mAccessor[t]}
    /\ mAccessor[Main] < mAccessor["p1"]
    /\ mAccessors[1] = mAccessor["p1"]
    /\ freed = {}

\* C19: teardown safety.  ~CoreThread has deleted nothing (accessors, queue,
\* frame allocators) unless the worker has returned from runCoreThread, and
\* the worker never reaches its loop test with the queue deleted.
C19_TeardownSafety ==
    /\ freed # {} => pc[Worker] = "done"
    /\ pc[Worker] # "undefined"

\* C20: synced-accessor validity.  Every dereference of mSyncedCoreAccessor
\* by getSyncedAccessor or submitAccessors found the accessor the worker
\* created: never nullptr, never the deleted accessor.
C20_SyncedAccessorValid == syncedDeref \subseteq {"valid"}

====
